---- MODULE Spec2Model ----
(***************************************************************************)
(* Verification model of the Orbidi ranking service:                       *)
(*   app/services/calculator.py      the conversion metric                 *)
(*   app/services/business_logic.py  radius filter, competitor resolver,   *)
(*                                   ranking                               *)
(*   app/core/redis.py               the cache client                      *)
(*   app/main.py                     the cache-aside request handlers,     *)
(*                                   the typology upsert, startup seeding  *)
(*                                                                         *)
(* Number representation.  Python floats are modelled in fixed point:      *)
(*   latitude / longitude   integer count of 1e-4 degrees                  *)
(*   distances              integer millimetres, rounded up                *)
(*   metric and its inputs  integer count of 1/Scale                       *)
(* A sector code (iae_code) is a sequence of one-character strings so that *)
(* slicing and SQL LIKE matching can be done character by character.       *)
(* Identifiers and cache keys are strings, concatenated as the f-strings   *)
(* of main.py concatenate them.                                            *)
(***************************************************************************)
EXTENDS Integers, Sequences, FiniteSets, TLC

\* ------------------------------------------------------------------ bounds
MaxRequests == 2      \* request slots: how many requests are in flight at once
MaxClock == 400       \* the clock stops advancing here (seconds)
MaxVenues == 3        \* rows of a pre-populated businesses table

\* --------------------------------------------------------------- constants
TTL == 300            \* main.py: set_cache(..., expire=300)
Scale == 10000        \* fixed-point unit of the metric: 1.0 is Scale

\* An optional value: None is the empty sequence, a value x is <<x>>.
None == <<>>
Some(x) == <<x>>
Value(o) == o[1]

Min2(a, b) == IF a < b THEN a ELSE b
Max2(a, b) == IF a > b THEN a ELSE b
Range(s) == {s[i] : i \in DOMAIN s}

\* A string as the sequence of its characters, for the codes of the seed data.
E4711 == <<"E", "4", "7", "1", ".", "1">>
G6512 == <<"G", "6", "5", "1", ".", "2">>
G6513 == <<"G", "6", "5", "1", ".", "3">>
G6514 == <<"G", "6", "5", "1", ".", "4">>

\* ------------------------------------------------- calculator.py (metric)
\* exp(-x) for x >= 0, x and the result in units of 1/Scale: e^-1 to the
\* integer part times the Taylor series of the fractional part.
RECURSIVE TimesEInv(_, _)
TimesEInv(v, n) == IF n = 0 \/ v = 0 THEN v ELSE TimesEInv((v * 3679) \div Scale, n - 1)

ExpNegFrac(f) ==
    LET t1 == f
        t2 == (t1 * f) \div (2 * Scale)
        t3 == (t2 * f) \div (3 * Scale)
        t4 == (t3 * f) \div (4 * Scale)
        t5 == (t4 * f) \div (5 * Scale)
        t6 == (t5 * f) \div (6 * Scale)
        t7 == (t6 * f) \div (7 * Scale)
    IN  Scale - t1 + t2 - t3 + t4 - t5 + t6 - t7

ExpNeg(x) == TimesEInv(ExpNegFrac(x % Scale), x \div Scale)

\* math.exp(-x) for any clamped x; a result too small for the unit is 0, one
\* too large for it is Huge.
Huge == 0 - 1
exp_neg(x) ==
    IF x >= 0 THEN ExpNeg(x)
    ELSE IF ExpNeg(-x) = 0 THEN Huge
    ELSE (Scale * Scale) \div ExpNeg(-x)

\* MetricCalculator.sigmoid: clamp x to [-100, 100], then 1 / (1 + exp(-x)).
sigmoid(x) ==
    LET c == Max2(Min2(x, 100 * Scale), -100 * Scale)
        e == exp_neg(c)
    IN  IF e = Huge THEN 0 ELSE (Scale * Scale) \div (Scale + e)

\* The weighted sum 0.2*r + 0.4*t + 0.4*p, with r = rentability/100,
\* t = typology_val/1000, p = 1/(1+distance_m), in units of 1/Scale.
WeightedSum(rentability, typology_val, distance_m) ==
    (2 * rentability * Scale) \div 1000
    + (4 * typology_val * Scale) \div 10000
    + (4 * Scale) \div (10 * (1 + distance_m))

\* A metric that returns the weighted sum itself (the sigmoid left out).
calculate_conversion_metric_linear(rentability, typology_val, distance_m) ==
    WeightedSum(rentability, typology_val, distance_m)

\* MetricCalculator.calculate_conversion_metric
calculate_conversion_metric(rentability, typology_val, distance_m) ==
    sigmoid(WeightedSum(rentability, typology_val, distance_m))

\* ------------------------------------------- business_logic.py (distance)
\* haversine_distance at the coordinates the model uses, as the source
\* function evaluates it (IEEE doubles), in millimetres rounded up.  The
\* radius is an integer number of metres, so dist <= radius holds of the
\* double exactly when it holds of the rounded-up value.
\* Rows: <<lat1, lon1, lat2, lon2, millimetres>>, coordinates in 1e-4 degrees.
HaversineTable ==
    { <<404167, -37037, 404167, -37037, 0>>,
      <<404167, -37037, 404150, -36850, 1594374>>,
      <<404167, -37037, 404130, -36810, 1965340>>,
      <<404167, -37037, 404230, -36110, 7878652>>,
      <<404167, -36850, 404167, -37037, 1583109>>,
      <<404167, -36850, 404150, -36850, 189032>>,
      <<404167, -36850, 404130, -36810, 532866>>,
      <<404167, -36850, 404230, -36110, 6303460>>,
      <<404150, -37037, 404167, -37037, 189032>>,
      <<404150, -37037, 404150, -36850, 1583149>>,
      <<404150, -37037, 404130, -36810, 1934643>>,
      <<404150, -37037, 404230, -36110, 7897803>>,
      <<404150, -36850, 404167, -37037, 1594374>>,
      <<404150, -36850, 404150, -36850, 0>>,
      <<404150, -36850, 404130, -36810, 405141>>,
      <<404150, -36850, 404230, -36110, 6327336>> }

haversine_distance(lat1, lon1, lat2, lon2) ==
    LET row == CHOOSE t \in HaversineTable :
                   t[1] = lat1 /\ t[2] = lon1 /\ t[3] = lat2 /\ t[4] = lon2
    IN  row[5]

\* round(dist, 2): millimetres to centimetres.
round2(dist) == (dist + 5) \div 10

\* The test of the filter loop with a strict comparison.
within_radius_strict(dist, radius) == dist < radius * 1000

\* `if dist <= radius` (dist in millimetres, radius in metres)
within_radius(dist, radius) == dist <= radius * 1000

\* The dict built for a row that passes the filter.
biz_data(b, dist) ==
    [ id |-> b.id, name |-> b.name, iae_code |-> b.iae_code,
      rentability |-> b.rentability,
      proximity_to_urban_center_m |-> b.proximity_to_urban_center_m,
      distance_from_search_m |-> round2(dist),
      coordinates |-> [lat |-> b.latitude, lon |-> b.longitude] ]

\* The filter loop: rows in the order the query returned them, each kept iff
\* it lies within the radius.
RECURSIVE filter_by_radius(_, _, _, _)
filter_by_radius(rows, lat, lon, radius) ==
    IF rows = <<>> THEN <<>>
    ELSE LET b == Head(rows)
             dist == haversine_distance(lat, lon, b.latitude, b.longitude)
             rest == filter_by_radius(Tail(rows), lat, lon, radius)
         IN  IF within_radius(dist, radius) THEN <<biz_data(b, dist)>> \o rest ELSE rest

\* iae_codes: the set of codes of the rows kept.
iae_codes_of(nearby) == {nearby[i].iae_code : i \in DOMAIN nearby}

\* select(IAECategory).where(iae_code.in_(iae_codes)) turned into iae_map:
\* the codes among iae_codes that have a row, each with its valor_tipologia.
iae_map_of(iae_rows, iae_codes) ==
    [c \in {row.iae_code : row \in {x \in iae_rows : x.iae_code \in iae_codes}} |->
        (CHOOSE row \in iae_rows : row.iae_code = c).valor_tipologia]

\* iae_map.get(code, 0)
map_get(iae_map, code) == IF code \in DOMAIN iae_map THEN iae_map[code] ELSE 0

\* biz["metric"] = ...: the dict with the key "metric" added.
set_metric(biz, m) ==
    [ id |-> biz.id, name |-> biz.name, iae_code |-> biz.iae_code,
      rentability |-> biz.rentability,
      proximity_to_urban_center_m |-> biz.proximity_to_urban_center_m,
      distance_from_search_m |-> biz.distance_from_search_m,
      coordinates |-> biz.coordinates,
      metric |-> m ]

\* The scoring loop: every kept row gets its metric.
with_metric(nearby, iae_map) ==
    [i \in DOMAIN nearby |->
        set_metric(nearby[i],
            calculate_conversion_metric(nearby[i].rentability,
                                        map_get(iae_map, nearby[i].iae_code),
                                        nearby[i].proximity_to_urban_center_m))]

\* Insert x into a list already sorted by descending metric, after every
\* element whose metric is greater than or equal to x's.
RECURSIVE insert_desc(_, _)
insert_desc(sortedList, x) ==
    IF sortedList = <<>> THEN <<x>>
    ELSE IF Head(sortedList).metric >= x.metric
         THEN <<Head(sortedList)>> \o insert_desc(Tail(sortedList), x)
         ELSE <<x>> \o sortedList

RECURSIVE sort_desc_from(_, _)
sort_desc_from(acc, list) ==
    IF list = <<>> THEN acc ELSE sort_desc_from(insert_desc(acc, Head(list)), Tail(list))

RECURSIVE reverse_list(_)
reverse_list(list) ==
    IF list = <<>> THEN <<>> ELSE reverse_list(Tail(list)) \o <<Head(list)>>

\* An ascending sort followed by a reversal: descending, with ties reversed.
sorted_by_metric_reversed(list) ==
    sort_desc_from(<<>>, reverse_list(list))

\* sorted(list, key=lambda x: x["metric"], reverse=True): descending, and
\* stable (elements with equal metric keep their order, also under reverse).
sorted_by_metric(list) == sort_desc_from(<<>>, list)

\* ----------------------------------------- business_logic.py (competitors)
\* SQL LIKE: % matches any run of characters, _ any one character.
RECURSIVE sql_like(_, _)
sql_like(s, pattern) ==
    IF pattern = <<>> THEN s = <<>>
    ELSE IF Head(pattern) = "%"
         THEN sql_like(s, Tail(pattern)) \/ (s # <<>> /\ sql_like(Tail(s), pattern))
    ELSE IF s = <<>> THEN FALSE
    ELSE (Head(pattern) = "_" \/ Head(pattern) = Head(s)) /\ sql_like(Tail(s), Tail(pattern))

\* Python's str.startswith: a literal prefix test.
starts_with(s, prefix) ==
    Len(prefix) <= Len(s) /\ SubSeq(s, 1, Len(prefix)) = prefix

\* Column.startswith(prefix) of SQLAlchemy: column LIKE prefix || '%', the
\* prefix not escaped.
column_startswith(s, prefix) == sql_like(s, prefix \o <<"%">>)

\* target_biz.iae_code[:2]
sector_prefix_of(iae_code) == SubSeq(iae_code, 1, Min2(2, Len(iae_code)))

\* select(Business).where(iae_code.startswith(sector_prefix), id != business_id)
select_candidates(rows, sector_prefix, business_id) ==
    SelectSeq(rows, LAMBDA b :
        column_startswith(b.iae_code, sector_prefix) /\ b.id # business_id)

\* select(Business).where(Business.id == business_id).scalar_one_or_none()
select_target(rows, business_id) ==
    IF \E i \in DOMAIN rows : rows[i].id = business_id
    THEN Some(rows[CHOOSE i \in DOMAIN rows : rows[i].id = business_id])
    ELSE None

\* get_processed_businesses, both of its queries reading the same tables.
get_processed_businesses(rows, iae_rows, lat, lon, radius) ==
    LET nearby == filter_by_radius(rows, lat, lon, radius)
    IN  IF nearby = <<>> THEN <<>>
        ELSE sorted_by_metric(with_metric(nearby, iae_map_of(iae_rows, iae_codes_of(nearby))))

\* get_processed_businesses_by_id, all of its queries reading the same
\* tables: None when there is no target, else the ranked competitors.
get_processed_businesses_by_id(rows, iae_rows, business_id, lat, lon, radius) ==
    LET target_biz == select_target(rows, business_id)
    IN  IF target_biz = None THEN None
        ELSE Some(get_processed_businesses(
                      select_candidates(rows, sector_prefix_of(Value(target_biz).iae_code),
                                        business_id),
                      iae_rows, lat, lon, radius))

\* ------------------------------------------------------ main.py (keys)
Digit(d) == ToString(d)

\* str(x) of a float x given in 1e-4 units: sign, integer part, point, and
\* the fraction without trailing zeros but with at least one digit.
float_str(x) ==
    LET a == IF x < 0 THEN 0 - x ELSE x
        ip == a \div 10000
        fp == a % 10000
        d1 == Digit(fp \div 1000)
        d2 == Digit((fp \div 100) % 10)
        d3 == Digit((fp \div 10) % 10)
        d4 == Digit(fp % 10)
        frac == IF fp % 1000 = 0 THEN d1
                ELSE IF fp % 100 = 0 THEN d1 \o d2
                ELSE IF fp % 10 = 0 THEN d1 \o d2 \o d3
                ELSE d1 \o d2 \o d3 \o d4
    IN  (IF x < 0 THEN "-" ELSE "") \o ToString(ip) \o "." \o frac

\* f"search:{lat}:{lon}:{radius}"
search_cache_key(lat, lon, radius) ==
    "search:" \o float_str(lat) \o ":" \o float_str(lon) \o ":" \o ToString(radius)

\* The competitors key with the identifier left out.
competitors_cache_key_without_id(business_id, lat, lon, radius) ==
    "search:" \o float_str(lat) \o ":" \o float_str(lon) \o ":" \o ToString(radius)

\* f"search:{business_id}:{lat}:{lon}:{radius}"
competitors_cache_key(business_id, lat, lon, radius) ==
    "search:" \o business_id \o ":" \o float_str(lat) \o ":" \o float_str(lon)
        \o ":" \o ToString(radius)

\* ------------------------------------------------------ redis.py (cache)
\* json.dumps / json.loads: the stored text is a value of its own kind, and
\* loads gives back the value it was made from.
json_dumps(value) == [json |-> value]
json_loads(data) == data.json

\* Redis GET: the data stored under the key, or nothing.  Expired entries
\* have been removed when the clock moved (see Tick).
redis_get(store, key) ==
    IF key \in DOMAIN store THEN Some(store[key].data) ELSE None

\* Redis SET key data EX expire, at time t.  writer is history: the request
\* parameters the entry was written for.
redis_set(store, key, data, expire, t, writer) ==
    [k \in DOMAIN store \cup {key} |->
        IF k = key
        THEN [data |-> data, ex |-> expire, expires_at |-> t + expire, writer |-> writer]
        ELSE store[k]]

\* Redis expiry: an entry is gone once the clock is past its expiry time.
redis_expire(store, t) ==
    [k \in {x \in DOMAIN store : t <= store[x].expires_at} |-> store[k]]

\* RedisClient.get_cache
get_cache(cl, store, key) ==
    IF ~cl THEN None
    ELSE LET data == redis_get(store, key)
         IN  IF data # None THEN Some(json_loads(Value(data))) ELSE None

\* RedisClient.set_cache
set_cache(cl, store, key, value, expire, t, writer) ==
    IF cl THEN redis_set(store, key, json_dumps(value), expire, t, writer) ELSE store

\* A truth test that takes a response with count 0 for false.
truthy_nonzero_count(cached_result) ==
    cached_result # None /\ Value(cached_result).count > 0

\* `if cached_result:` None is false; a dict is true iff it has a key.
truthy(cached_result) ==
    cached_result # None /\ DOMAIN Value(cached_result) # {}

\* ------------------------------------------------- main.py (the database)
Business(id, name, iae_code, rentability, proximity, latitude, longitude) ==
    [ id |-> id, name |-> name, iae_code |-> iae_code, rentability |-> rentability,
      proximity_to_urban_center_m |-> proximity,
      latitude |-> latitude, longitude |-> longitude ]

IAECategory(iae_code, valor_tipologia) ==
    [iae_code |-> iae_code, valor_tipologia |-> valor_tipologia]

SeedIAE ==
    { IAECategory(E4711, 800), IAECategory(G6512, 450),
      IAECategory(G6513, 470), IAECategory(G6514, 490) }

SeedBusinesses ==
    << Business("biz_001", "Madrid Central Grill", E4711, 85, 100, 404167, -37037),
       Business("biz_002", "Retiro Coffee", G6512, 65, 200, 404150, -36850),
       Business("biz_003", "Madrid Central Coffee", G6513, 68, 190, 404130, -36810),
       Business("biz_004", "Sol Coffee", G6514, 62, 90, 404230, -36110) >>

\* seed_database: each table is filled only when it has no row.
seed_iae(iae_rows) == IF iae_rows = {} THEN SeedIAE ELSE iae_rows
seed_businesses(rows) == IF rows = <<>> THEN SeedBusinesses ELSE rows

\* An upsert that also drops every cache entry.
cache_after_upsert_flushed(store) == [k \in {} |-> store[k]]

\* upsert_iae_category makes no call to the cache client.
cache_after_upsert(store) == store

\* upsert_iae_category: the row of the code is updated, or a row is added.
upsert_row(iae_rows, iae_code, valor_tipologia) ==
    IF \E row \in iae_rows : row.iae_code = iae_code
    THEN {IF row.iae_code = iae_code
          THEN [row EXCEPT !.valor_tipologia = valor_tipologia] ELSE row : row \in iae_rows}
    ELSE iae_rows \cup {IAECategory(iae_code, valor_tipologia)}

\* ------------------------------------------------------------------ state
VARIABLES
    serving,      \* the application has started and takes requests
    client,       \* redis_client.client is set (RedisClient.init has run)
    now,          \* the clock, in seconds
    store,        \* the Redis store: key -> entry
    businesses,   \* table businesses: rows in the order a select returns them
    iae,          \* table iae_categories: set of rows
    reqs,         \* request slot -> the request being handled in it
    calc,         \* the last call of the metric calculator: inputs and score
    cachedAtUpsert \* history: <<key, row>> when the key has had an entry ever
                   \* since an upsert wrote the row

vars == <<serving, client, now, store, businesses, iae, reqs, calc, cachedAtUpsert>>

Slots == 1..MaxRequests

NoWriter ==
    [kind |-> "none", business_id |-> "", lat |-> 0, lon |-> 0, radius |-> 0,
     typologies |-> {}]

IdleRequest ==
    [ pc |-> "idle", kind |-> "none", business_id |-> "", lat |-> 0, lon |-> 0,
      radius |-> 0, cache_key |-> "",
      live |-> FALSE,          \* history: the key had an entry when the cache was read
      seen |-> None,           \* history: the data under the key when the cache was read
      served |-> NoWriter,     \* history: the writer of the entry returned on a hit
      without |-> {},          \* history: rows upserted while the entry read was cached
      computed |-> FALSE,      \* history: the ranking function has run for this request
      typologies |-> {},       \* history: the iae rows the ranking read
      stored |-> FALSE,        \* history: after set_cache the key held the response,
                               \* with TTL seconds to live from then
      nearby |-> <<>>, processed_list |-> None, response |-> None, status |-> 0 ]

NoCall == [rentability |-> 0, typology_val |-> 0, distance_m |-> 0, score |-> 0, called |-> FALSE]

WriterOf(q) ==
    [kind |-> q.kind, business_id |-> q.business_id, lat |-> q.lat, lon |-> q.lon,
     radius |-> q.radius, typologies |-> q.typologies]

\* The response dict of the two handlers.
search_response(processed_list) ==
    [count |-> Len(processed_list), businesses |-> processed_list]

competitors_response(processed_list) ==
    [count |-> Len(processed_list), competitors |-> processed_list]

response_of(kind, processed_list) ==
    IF kind = "search" THEN search_response(processed_list)
    ELSE competitors_response(processed_list)

response_list(kind, response) ==
    IF kind = "search" THEN response.businesses ELSE response.competitors

\* ---------------------------------------------------------------- actions
\* lifespan: create the tables, seed them when empty, initialise the cache
\* client, then serve.
Lifespan ==
    /\ ~serving
    /\ businesses' = seed_businesses(businesses)
    /\ iae' = seed_iae(iae)
    /\ client' = TRUE
    /\ serving' = TRUE
    /\ UNCHANGED <<now, store, reqs, calc, cachedAtUpsert>>

\* The head of both handlers: build the key, read the cache, and return the
\* cached result if it is true.  A slot whose request has returned takes the
\* next request.
Arrive(r, kind, business_id, lat, lon, radius) ==
    /\ serving
    /\ reqs[r].pc \in {"idle", "done"}
    /\ LET key == IF kind = "search" THEN search_cache_key(lat, lon, radius)
                  ELSE competitors_cache_key(business_id, lat, lon, radius)
           cached_result == get_cache(client, store, key)
           q == [IdleRequest EXCEPT !.kind = kind, !.business_id = business_id,
                                    !.lat = lat, !.lon = lon, !.radius = radius,
                                    !.cache_key = key,
                                    !.live = (client /\ key \in DOMAIN store),
                                    !.seen = IF client THEN redis_get(store, key) ELSE None,
                                    !.without = {p[2] : p \in {x \in cachedAtUpsert :
                                                                  x[1] = key}}]
       IN  IF truthy(cached_result)
           THEN reqs' = [reqs EXCEPT ![r] =
                    [q EXCEPT !.pc = "done", !.response = cached_result, !.status = 200,
                              !.served = store[key].writer]]
           ELSE reqs' = [reqs EXCEPT ![r] = [q EXCEPT !.pc = "select"]]
    /\ UNCHANGED <<serving, client, now, store, businesses, iae, calc, cachedAtUpsert>>

\* search_nearby_businesses: GET /api/v1/businesses/search
ArriveSearch(r, lat, lon, radius) == Arrive(r, "search", "", lat, lon, radius)

\* get_business_competitors: GET /api/v1/businesses/{business_id}/competitors
ArriveCompetitors(r, business_id, lat, lon, radius) ==
    Arrive(r, "competitors", business_id, lat, lon, radius)

\* What follows the ranking in a handler: len(processed_list) raises
\* TypeError on None (the request ends with status 500); otherwise the
\* response is built and the handler goes on to set_cache.
AfterRanking(q, processed_list) ==
    IF processed_list = None
    THEN [q EXCEPT !.pc = "done", !.computed = TRUE, !.processed_list = None,
                   !.status = 500]
    ELSE [q EXCEPT !.pc = "store", !.computed = TRUE, !.processed_list = processed_list,
                   !.response = Some(response_of(q.kind, Value(processed_list)))]

\* get_processed_businesses up to its second query: select every business,
\* filter by radius, and return [] when nothing is near.
SelectSearch(r) ==
    /\ reqs[r].pc = "select"
    /\ reqs[r].kind = "search"
    /\ LET q == reqs[r]
           nearby == filter_by_radius(businesses, q.lat, q.lon, q.radius)
       IN  reqs' = [reqs EXCEPT ![r] =
               IF nearby = <<>> THEN AfterRanking(q, Some(<<>>))
               ELSE [q EXCEPT !.pc = "typology", !.computed = TRUE, !.nearby = nearby]]
    /\ UNCHANGED <<serving, client, now, store, businesses, iae, calc, cachedAtUpsert>>

\* get_processed_businesses_by_id up to its last query: select the target
\* (None when there is none), select the candidates, filter by radius, and
\* return [] when nothing is near.
SelectCompetitors(r) ==
    /\ reqs[r].pc = "select"
    /\ reqs[r].kind = "competitors"
    /\ LET q == reqs[r]
           target_biz == select_target(businesses, q.business_id)
       IN  IF target_biz = None
           THEN reqs' = [reqs EXCEPT ![r] = AfterRanking(q, None)]
           ELSE LET sector_prefix == sector_prefix_of(Value(target_biz).iae_code)
                    db_candidates ==
                        select_candidates(businesses, sector_prefix, q.business_id)
                    nearby == filter_by_radius(db_candidates, q.lat, q.lon, q.radius)
                IN  reqs' = [reqs EXCEPT ![r] =
                        IF nearby = <<>> THEN AfterRanking(q, Some(<<>>))
                        ELSE [q EXCEPT !.pc = "typology", !.computed = TRUE,
                                       !.nearby = nearby]]
    /\ UNCHANGED <<serving, client, now, store, businesses, iae, calc, cachedAtUpsert>>

\* The rest of both ranking functions: read the typologies of the codes
\* kept, score every row, sort by metric.
Typology(r) ==
    /\ reqs[r].pc = "typology"
    /\ LET q == reqs[r]
           iae_map == iae_map_of(iae, iae_codes_of(q.nearby))
           scored == with_metric(q.nearby, iae_map)
           q2 == [q EXCEPT !.nearby = scored,
                           !.typologies = {row \in iae : row.iae_code \in DOMAIN iae_map}]
       IN  reqs' = [reqs EXCEPT ![r] = AfterRanking(q2, Some(sorted_by_metric(scored)))]
    /\ UNCHANGED <<serving, client, now, store, businesses, iae, calc, cachedAtUpsert>>

\* The tail of both handlers: set_cache(cache_key, response, expire=300) and
\* return the response.
Store(r) ==
    /\ reqs[r].pc = "store"
    /\ LET q == reqs[r]
       IN  /\ store' = set_cache(client, store, q.cache_key, Value(q.response), TTL, now,
                                 WriterOf(q))
           /\ reqs' = [reqs EXCEPT ![r] =
                  [q EXCEPT !.pc = "done", !.status = 200,
                            !.stored =
                                /\ q.cache_key \in DOMAIN store'
                                /\ store'[q.cache_key].data = json_dumps(Value(q.response))
                                /\ store'[q.cache_key].ex = TTL
                                /\ store'[q.cache_key].expires_at = now + TTL]]
    /\ UNCHANGED <<serving, client, now, businesses, iae, calc, cachedAtUpsert>>

\* upsert_iae_category: POST /api/v1/iae
Upsert(iae_code, valor_tipologia) ==
    /\ serving
    /\ upsert_row(iae, iae_code, valor_tipologia) # iae
    /\ iae' = upsert_row(iae, iae_code, valor_tipologia)
    /\ store' = cache_after_upsert(store)
    /\ cachedAtUpsert' = cachedAtUpsert \cup
           {<<k, row>> : k \in DOMAIN store,
                         row \in upsert_row(iae, iae_code, valor_tipologia) \ iae}
    /\ UNCHANGED <<serving, client, now, businesses, reqs, calc>>

\* Time passes; Redis drops the entries whose time is up.
Tick(seconds) ==
    /\ serving
    /\ now + seconds <= MaxClock
    /\ now' = now + seconds
    /\ store' = redis_expire(store, now + seconds)
    /\ cachedAtUpsert' = {p \in cachedAtUpsert : p[1] \in DOMAIN store'}
    /\ UNCHANGED <<serving, client, businesses, iae, reqs, calc>>

\* One call of the calculator.
Calculate ==
    /\ ~calc.called
    /\ calc' = [calc EXCEPT !.called = TRUE,
                   !.score = calculate_conversion_metric(calc.rentability,
                                 calc.typology_val, calc.distance_m)]
    /\ UNCHANGED <<serving, client, now, store, businesses, iae, reqs, cachedAtUpsert>>

\* ------------------------------------------------- the service (Spec)
\* The application from a fresh deployment: empty tables, no cache client.
SearchInputs == { <<404150, -36850, 500>> }
CompetitorInputs == { <<"biz_001", 404150, -36850, 500>>, <<"nope", 404150, -36850, 500>> }
UpsertInputs == { <<G6513, 900>> }
TickSteps == {200}

Init ==
    /\ serving = FALSE
    /\ client = FALSE
    /\ now = 0
    /\ store = <<>>
    /\ businesses = <<>>
    /\ iae = {}
    /\ reqs = [r \in Slots |-> IdleRequest]
    /\ calc = NoCall
    /\ cachedAtUpsert = {}

Next ==
    \/ Lifespan
    \/ \E r \in Slots, i \in SearchInputs : ArriveSearch(r, i[1], i[2], i[3])
    \/ \E r \in Slots, i \in CompetitorInputs : ArriveCompetitors(r, i[1], i[2], i[3], i[4])
    \/ \E r \in Slots : SelectSearch(r)
    \/ \E r \in Slots : SelectCompetitors(r)
    \/ \E r \in Slots : Typology(r)
    \/ \E r \in Slots : Store(r)
    \/ \E u \in UpsertInputs : Upsert(u[1], u[2])
    \/ \E d \in TickSteps : Tick(d)

Spec == Init /\ [][Next]_vars

\* ------------------------------------------ properties of the service
\* The step a request in flight takes next.
StepOf(r) == SelectSearch(r) \/ SelectCompetitors(r) \/ Typology(r) \/ Store(r)

\* A response dict is complete: its count is the length of its list and every
\* element carries a metric.
Complete(kind, response) ==
    /\ response.count = Len(response_list(kind, response))
    /\ \A i \in DOMAIN response_list(kind, response) :
           "metric" \in DOMAIN response_list(kind, response)[i]

\* The response the handler of request q builds when the ranking reads the
\* typology rows iae_rows.
ResponseUnder(q, iae_rows) ==
    response_of(q.kind,
        IF q.kind = "search"
        THEN get_processed_businesses(businesses, iae_rows, q.lat, q.lon, q.radius)
        ELSE Value(get_processed_businesses_by_id(businesses, iae_rows, q.business_id,
                                                  q.lat, q.lon, q.radius)))

TargetExists(q) ==
    q.kind = "competitors" => select_target(businesses, q.business_id) # None

\* C1, as stated: while a key has an entry, no ranking computation starts for
\* that key (the computation counter of the key stays where it is during the
\* TTL window).
C1_CounterStaysDuringWindow ==
    [][\A r \in Slots :
          (~reqs[r].computed /\ reqs'[r].computed)
              => reqs'[r].cache_key \notin DOMAIN store]_vars

\* C1, amended: a request that reads the cache while its key has an entry
\* returns the payload stored under the key and never runs the ranking
\* computation; the only computations in the window are those of requests
\* that read the cache before the entry was stored.
C1_CacheHit ==
    \A r \in Slots :
        reqs[r].live =>
            /\ reqs[r].pc = "done"
            /\ reqs[r].status = 200
            /\ ~reqs[r].computed
            /\ reqs[r].response = Some(json_loads(Value(reqs[r].seen)))

\* A request has been answered from the cache, with a list that is empty.
C1_Witness ==
    \E r \in Slots :
        /\ reqs[r].live
        /\ reqs[r].pc = "done"
        /\ reqs[r].response # None
        /\ Value(reqs[r].response).count = 0

\* C2: an entry is stored with a TTL of 300 seconds and is absent once older;
\* a request that finds no entry under its key runs the ranking computation,
\* stores the result under the key for 300 seconds, and returns it.
C2_ExpiryRecompute ==
    /\ \A k \in DOMAIN store :
           /\ store[k].ex = TTL
           /\ now <= store[k].expires_at
           /\ store[k].expires_at <= now + TTL
    /\ \A r \in Slots :
           (reqs[r].pc = "done" /\ ~reqs[r].live) =>
               /\ reqs[r].computed
               /\ reqs[r].status = 200
               /\ reqs[r].response = Some(response_of(reqs[r].kind,
                                                      Value(reqs[r].processed_list)))
               /\ reqs[r].stored

\* C2 for the requests the ranking returns a list for (every search, and the
\* competitor searches whose reference venue exists).
ExpiryRecomputeWhenTargetExists ==
    /\ \A k \in DOMAIN store :
           /\ store[k].ex = TTL
           /\ now <= store[k].expires_at
           /\ store[k].expires_at <= now + TTL
    /\ \A r \in Slots :
           (reqs[r].pc = "done" /\ ~reqs[r].live /\ TargetExists(reqs[r])) =>
               /\ reqs[r].computed
               /\ reqs[r].status = 200
               /\ reqs[r].response = Some(response_of(reqs[r].kind,
                                                      Value(reqs[r].processed_list)))
               /\ reqs[r].stored

\* A request has recomputed and stored after the entry of its key expired.
ExpiryRecomputeReached ==
    \E r \in Slots :
        /\ reqs[r].pc = "done" /\ ~reqs[r].live /\ reqs[r].stored
        /\ now > TTL
        /\ reqs[r].cache_key \in DOMAIN store
        /\ store[reqs[r].cache_key].expires_at = now + TTL

\* C3: a competitor search whose reference venue does not exist ends with a
\* not-found response (status 404), not with an unhandled failure.
C3_NotFound ==
    \A r \in Slots :
        ( /\ reqs[r].pc = "done"
          /\ reqs[r].kind = "competitors"
          /\ select_target(businesses, reqs[r].business_id) = None )
            => reqs[r].status = 404

\* C7: whatever the interleaving, every request returns a complete computed
\* payload, every cache entry is the complete payload one request wrote for
\* its key, and a request in flight can always take its next step.
C7_ConcurrentMisses ==
    /\ \A r \in Slots :
           reqs[r].pc = "done" =>
               /\ reqs[r].status = 200
               /\ Complete(reqs[r].kind, Value(reqs[r].response))
    /\ \A k \in DOMAIN store :
           /\ Complete(store[k].writer.kind, json_loads(store[k].data))
           /\ json_loads(store[k].data) = ResponseUnder(store[k].writer,
                                                        store[k].writer.typologies)
    /\ \A r \in Slots :
           reqs[r].pc \in {"select", "typology", "store"} => ENABLED StepOf(r)

\* C7 for the requests the ranking returns a list for.
ConcurrentMissesWhenTargetExists ==
    /\ \A r \in Slots :
           (reqs[r].pc = "done" /\ TargetExists(reqs[r])) =>
               /\ reqs[r].status = 200
               /\ Complete(reqs[r].kind, Value(reqs[r].response))
    /\ \A k \in DOMAIN store :
           /\ Complete(store[k].writer.kind, json_loads(store[k].data))
           /\ json_loads(store[k].data) = ResponseUnder(store[k].writer,
                                                        store[k].writer.typologies)

\* A request in flight can always take its next step.
NoRequestWaits ==
    \A r \in Slots :
        reqs[r].pc \in {"select", "typology", "store"} => ENABLED StepOf(r)

\* Two requests for one key have both missed, both computed and both stored.
ConcurrentMissesReached ==
    \E r1, r2 \in Slots :
        /\ r1 # r2
        /\ reqs[r1].cache_key = reqs[r2].cache_key
        /\ reqs[r1].pc = "done" /\ reqs[r2].pc = "done"
        /\ reqs[r1].stored /\ reqs[r2].stored
        /\ ~reqs[r1].live /\ ~reqs[r2].live

\* C9, as stated: a request answered from an entry that has been cached ever
\* since an upsert wrote a row gets a payload computed without that row.
C9_PreUpsertUntilExpiry ==
    \A r \in Slots :
        reqs[r].live => reqs[r].served.typologies \cap reqs[r].without = {}

\* Every request answered from the cache has got the payload its writer
\* computed, with the typology rows that writer read.
ServedAsWritten ==
    \A r \in Slots :
        reqs[r].live =>
            reqs[r].response = Some(ResponseUnder(reqs[r], reqs[r].served.typologies))

\* C9, amended: an upsert leaves every cache entry as it is, and a request
\* answered from the cache gets the payload as its writer computed it, from
\* the typology rows that writer read, whatever the table holds by then.
\* (The writer may be a request that missed the cache before the upsert and
\* computed after it.)
C9_UpsertKeepsCache ==
    /\ []ServedAsWritten
    /\ [][(serving /\ iae' # iae) => store' = store]_vars

\* A request has been answered, after an upsert, from an entry cached since
\* before it, with a payload computed from the row the upsert replaced.
C9_Witness ==
    \E r \in Slots :
        /\ reqs[r].live
        /\ reqs[r].pc = "done"
        /\ reqs[r].without # {}
        /\ reqs[r].served.typologies \cap reqs[r].without = {}
        /\ \E row \in reqs[r].served.typologies : row \notin iae

\* ------------------------------------- the ranking pipeline (SpecRank)
\* The handlers over a businesses table that was filled before the
\* application started, driven without the lifespan (the cache client is
\* None, so every request runs the ranking).  One request at a time.
G61 == <<"G", "6", "1">>
G62 == <<"G", "6", "2">>
H61 == <<"H", "6", "1">>
U6 == <<"_", "6">>

\* <<iae_code, rentability, proximity_to_urban_center_m>>
VenueProfiles == { <<G61, 80, 100>>, <<G62, 80, 100>>, <<H61, 60, 0>>, <<U6, 60, 0>> }
\* <<latitude, longitude>>
VenuePoints == { <<404150, -36850>>, <<404130, -36810>> }
VenueIds == <<"v1", "v2", "v3", "v4", "v5">>

RankIAE == { IAECategory(G61, 800), IAECategory(G62, 800) }

RankTables ==
    UNION { { [i \in 1..n |->
                 Business(VenueIds[i], VenueIds[i], f[i][1][1], f[i][1][2], f[i][1][3],
                          f[i][2][1], f[i][2][2])] :
              f \in [1..n -> VenueProfiles \X VenuePoints] } : n \in 0..MaxVenues }

RankSearchInputs == { <<404150, -36850, 0>>, <<404150, -36850, 405>>, <<404150, -36850, 406>> }
RankCompetitorInputs ==
    { <<id, 404150, -36850, radius>> : id \in {"v1", "v2", "zz"}, radius \in {0, 406} }
RankUpsertInputs == { <<H61, 300>> }

InitRank ==
    /\ serving = TRUE
    /\ client = FALSE
    /\ now = 0
    /\ store = <<>>
    /\ businesses \in RankTables
    /\ iae = RankIAE
    /\ reqs = [r \in Slots |-> IdleRequest]
    /\ calc = NoCall
    /\ cachedAtUpsert = {}

NextRank ==
    \/ \E i \in RankSearchInputs : ArriveSearch(1, i[1], i[2], i[3])
    \/ \E i \in RankCompetitorInputs : ArriveCompetitors(1, i[1], i[2], i[3], i[4])
    \/ SelectSearch(1)
    \/ SelectCompetitors(1)
    \/ Typology(1)
    \/ Store(1)
    \/ \E u \in RankUpsertInputs : Upsert(u[1], u[2])

SpecRank == InitRank /\ [][NextRank]_vars

\* The place of the venue with identifier id in a list of dicts.
PositionOf(list, id) == CHOOSE i \in DOMAIN list : list[i].id = id

Ids(list) == {list[i].id : i \in DOMAIN list}

\* The request of slot 1 has its ranked list.
Ranked(kind) ==
    /\ reqs[1].kind = kind
    /\ reqs[1].pc \in {"store", "done"}
    /\ reqs[1].processed_list # None

\* C4: the competitors of an existing reference venue never include the
\* venue itself, include only venues whose code starts with the first two
\* characters of its code, and include every other such venue that lies
\* within the radius of the origin.
C4_CompetitorResolution ==
    Ranked("competitors") =>
        LET list == Value(reqs[1].processed_list)
            ref == Value(select_target(businesses, reqs[1].business_id))
            prefix == sector_prefix_of(ref.iae_code)
        IN  /\ \A i \in DOMAIN list :
                   /\ list[i].id # ref.id
                   /\ starts_with(list[i].iae_code, prefix)
            /\ \A j \in DOMAIN businesses :
                   ( /\ businesses[j].id # ref.id
                     /\ starts_with(businesses[j].iae_code, prefix)
                     /\ haversine_distance(reqs[1].lat, reqs[1].lon,
                                           businesses[j].latitude,
                                           businesses[j].longitude)
                            <= reqs[1].radius * 1000 )
                       => businesses[j].id \in Ids(list)

\* C4 for the reference venues whose first two characters hold neither of the
\* LIKE wildcards.
CompetitorResolutionWithoutWildcards ==
    ( /\ Ranked("competitors")
      /\ \A c \in Range(sector_prefix_of(
                    Value(select_target(businesses, reqs[1].business_id)).iae_code)) :
             c \notin {"%", "_"} )
        => C4_CompetitorResolution

\* C5: the ranked list holds the rows the filter kept, in descending order of
\* metric, rows of equal metric in the order the filter kept them.
C5_RankingOrder ==
    \A kind \in {"search", "competitors"} :
        Ranked(kind) =>
            LET list == Value(reqs[1].processed_list)
                nearby == reqs[1].nearby
            IN  /\ Len(list) = Len(nearby)
                /\ \A i \in DOMAIN list : \E j \in DOMAIN nearby : list[i] = nearby[j]
                /\ \A i, j \in DOMAIN list :
                       i < j =>
                           /\ list[i].metric >= list[j].metric
                           /\ list[i].metric = list[j].metric
                                  => PositionOf(nearby, list[i].id)
                                         < PositionOf(nearby, list[j].id)

\* A ranked list of three with a tie and a strict descent, the row of the
\* greatest metric not the first the filter kept.
C5_Witness ==
    /\ Ranked("search")
    /\ LET list == Value(reqs[1].processed_list)
       IN  /\ Len(list) = 3
           /\ list[1].metric = list[2].metric
           /\ list[2].metric > list[3].metric
           /\ PositionOf(reqs[1].nearby, list[3].id) = 1

\* C6: a search returns, once each, exactly the venues whose distance from
\* the origin is at most the radius.
C6_RadiusFilter ==
    Ranked("search") =>
        LET list == Value(reqs[1].processed_list)
            inside == { j \in DOMAIN businesses :
                          haversine_distance(reqs[1].lat, reqs[1].lon,
                                             businesses[j].latitude,
                                             businesses[j].longitude)
                              <= reqs[1].radius * 1000 }
        IN  /\ Ids(list) = {businesses[j].id : j \in inside}
            /\ Len(list) = Cardinality(inside)

\* A search of radius 0 has returned a venue at distance 0 and left out one
\* that is farther.
C6_Witness ==
    /\ Ranked("search")
    /\ reqs[1].radius = 0
    /\ \E i \in DOMAIN Value(reqs[1].processed_list) :
           Value(reqs[1].processed_list)[i].distance_from_search_m = 0
    /\ Len(businesses) > Len(Value(reqs[1].processed_list))

\* ------------------------------------- the metric alone (SpecMetric)
Rentabilities == {0, 1, 50, 85, 99, 100}
TypologyValues == {0, 1, 500, 800, 999, 1000}
Distances == {0, 1, 100, 3999, 4000, 100000}

InitMetric ==
    /\ serving = FALSE
    /\ client = FALSE
    /\ now = 0
    /\ store = <<>>
    /\ businesses = <<>>
    /\ iae = {}
    /\ reqs = [r \in Slots |-> IdleRequest]
    /\ calc \in { [rentability |-> r, typology_val |-> t, distance_m |-> d,
                   score |-> 0, called |-> FALSE] :
                  r \in Rentabilities, t \in TypologyValues, d \in Distances }
    /\ cachedAtUpsert = {}

NextMetric == Calculate

SpecMetric == InitMetric /\ [][NextMetric]_vars

\* C8: for rentability in 0..100, typology value in 0..1000 and distance >= 0
\* the score is strictly between 0 and 1.
C8_MetricBound ==
    calc.called => (0 < calc.score /\ calc.score < Scale)

\* The score of the greatest inputs and the score of the least.
C8_Witness ==
    /\ calc.called
    /\ \/ (calc.rentability = 100 /\ calc.typology_val = 1000 /\ calc.distance_m = 0)
       \/ (calc.rentability = 0 /\ calc.typology_val = 0 /\ calc.distance_m = 100000)

\* ------------------------------------------- the cache keys (SpecKeys)
\* The started application over a businesses table whose identifiers hold
\* the delimiter of the keys.  One request at a time; no entry expires.
KeyBusinesses ==
    << Business("x", "X", G6512, 65, 200, 404150, -36850),
       Business("x:40.415", "X colon", G6513, 68, 190, 404130, -36810),
       Business("40.415", "Number", G6514, 62, 90, 404150, -36850) >>

KeySearchInputs == { <<404150, -36850, 500>>, <<404167, -36850, 500>> }
KeyCompetitorInputs ==
    { <<id, lat, 0 - 36850, 500>> : id \in {"x", "x:40.415", "40.415"},
                                    lat \in {404150, 404167} }

InitKeys ==
    /\ serving = TRUE
    /\ client = TRUE
    /\ now = 0
    /\ store = <<>>
    /\ businesses = KeyBusinesses
    /\ iae = SeedIAE
    /\ reqs = [r \in Slots |-> IdleRequest]
    /\ calc = NoCall
    /\ cachedAtUpsert = {}

NextKeys ==
    \/ \E i \in KeySearchInputs : ArriveSearch(1, i[1], i[2], i[3])
    \/ \E i \in KeyCompetitorInputs : ArriveCompetitors(1, i[1], i[2], i[3], i[4])
    \/ SelectSearch(1)
    \/ SelectCompetitors(1)
    \/ Typology(1)
    \/ Store(1)

SpecKeys == InitKeys /\ [][NextKeys]_vars

SameRequest(w, q) ==
    /\ w.kind = q.kind
    /\ w.business_id = q.business_id
    /\ w.lat = q.lat
    /\ w.lon = q.lon
    /\ w.radius = q.radius

\* The key the handlers build for a request.
KeyOf(w) ==
    IF w.kind = "search"
    THEN search_cache_key(w.lat, w.lon, w.radius)
    ELSE competitors_cache_key(w.business_id, w.lat, w.lon, w.radius)

\* C10: a request answered from the cache gets a payload that a request of
\* the same endpoint with the same identifier, latitude, longitude and
\* radius stored; every entry lies under the key of the request that wrote it.
C10_KeySeparation ==
    /\ \A r \in Slots : reqs[r].live => SameRequest(reqs[r].served, reqs[r])
    /\ \A k \in DOMAIN store : KeyOf(store[k].writer) = k
    /\ \A k1, k2 \in DOMAIN store :
           k1 # k2 => ~SameRequest(store[k1].writer, store[k2].writer)

\* A competitor request whose identifier holds the delimiter has been
\* answered from the cache while the cache also held the entry of the search
\* and that of another identifier with the same coordinates and radius.
C10_Witness ==
    /\ reqs[1].live
    /\ reqs[1].pc = "done"
    /\ reqs[1].business_id = "x:40.415"
    /\ \E k \in DOMAIN store :
           /\ store[k].writer.kind = "search"
           /\ store[k].writer.lat = reqs[1].lat
           /\ store[k].writer.radius = reqs[1].radius
    /\ \E k \in DOMAIN store :
           /\ store[k].writer.kind = "competitors"
           /\ store[k].writer.business_id = "x"
           /\ store[k].writer.lat = reqs[1].lat

====
